---- MODULE Spec2Model ----
(***************************************************************************)
(* A model of the job scrapers scrape_jobs_github.py,                      *)
(* scrape_microsoft_jobs.py and scrape_tech_jobs.py: the text field        *)
(* extractor (extract_experience_and_skills), the detail fetch             *)
(* (get_job_detail) with its summary, the tabular writer (save_to_excel),  *)
(* the reader verify_excel_file of verify_excel.py, and main() of the      *)
(* three scripts with the listing scrapers it calls.                       *)
(*                                                                         *)
(* Python values are tagged records [type, val]; texts are TLA+ strings,   *)
(* read one character at a time with SubSeq.                               *)
(***************************************************************************)
EXTENDS Integers, Sequences, FiniteSets, TLC

VARIABLES
    scraper,          \* the script that runs: "github", "microsoft" or "tech"
    pc,               \* where the modelled call or run stands
    job_description,  \* the argument of extract_experience_and_skills
    ret,              \* what extract_experience_and_skills returned (or raised)
    fetch_ok,         \* whether requests.get / raise_for_status succeed for job_url
    page,             \* the fetched detail page: its description elements
    job_details,      \* the dict get_job_detail returns
    jobs,             \* the argument of the last save_to_excel call
    write_ok,         \* whether df.to_excel succeeded in the last call
    file,             \* the spreadsheet file of the script: NoFile or a table
    save_ret,         \* what the last save_to_excel call returned
    read_ok,          \* whether pd.read_excel succeeded in verify_excel_file
    verify_df,        \* the DataFrame verify_excel_file read
    all_columns_present,  \* the flag verify_excel_file computes and prints
    verify_ret,       \* what verify_excel_file returned
    test_ok,          \* whether the connectivity test of main succeeded
    raised_exc,       \* the exception raised in the try block of main, "" for none
    escaped,          \* the exception that left main, "" for none
    io,               \* the last two requests and sleeps of the run, the older first
    page_no,          \* page of scrape_all_jobs (Microsoft), 0 elsewhere
    url_index,        \* the place in urls_to_try of the URL to request next
    listing_ok,       \* whether the last listing page request succeeded
    soup,             \* the listing page parsed last
    working_url,      \* the URL that listing page came from
    job_cards,        \* the cards get_job_listings goes through
    consulted,        \* how many job selectors the selector loop tried
    card_index,       \* the place in job_cards of the card in hand
    card_data,        \* job_title, job_url and location taken from that card
    detail_calls,     \* how many times get_job_detail was called for that card
    page_jobs,        \* the list jobs of get_job_listings
    all_jobs,         \* the list of main (tech) and of scrape_all_jobs
    scraped           \* what each listing call returned, in call order

verifyVars == <<read_ok, verify_df, all_columns_present, verify_ret>>
mainVars == <<test_ok, raised_exc, escaped, io, page_no, url_index, listing_ok, soup,
              working_url, job_cards, consulted, card_index, card_data, detail_calls,
              page_jobs, all_jobs, scraped>>

vars == <<scraper, pc, job_description, ret, fetch_ok, page, job_details,
          jobs, write_ok, file, save_ret, verifyVars, mainVars>>

(***************************************************************************)
(* Bounds of the model.                                                    *)
(***************************************************************************)
MaxFragments == 2
MaxDescLen == 203
MaxJobs == 2
MaxFileRows == 1

(***************************************************************************)
(* Python values.                                                          *)
(***************************************************************************)
Str(s) == [type |-> "str", val |-> s]
None == [type |-> "NoneType", val |-> ""]
NaN == [type |-> "float", val |-> "nan"]
List(s) == [type |-> "list", val |-> s]

\* Python's truth test, as `not x` uses it: None, "" and [] are false.
FalsyNoneOnly(v) == v.type = "NoneType"
FalsyEmptyStrOnly(v) == v.type = "str" /\ v.val = ""
Falsy(v) ==
    CASE v.type = "NoneType" -> TRUE
      [] v.type = "str" -> v.val = ""
      [] v.type = "list" -> Len(v.val) = 0
      [] OTHER -> FALSE

Min(a, b) == IF a < b THEN a ELSE b

(***************************************************************************)
(* Characters and str methods.                                             *)
(***************************************************************************)
UpperChars == "ABCDEFGHIJKLMNOPQRSTUVWXYZ"
LowerChars == "abcdefghijklmnopqrstuvwxyz"
Digits == {"0", "1", "2", "3", "4", "5", "6", "7", "8", "9"}
Whitespace == {" ", "\t", "\n", "\r"}

CharAt(s, i) == SubSeq(s, i, i)

UpperSet == {CharAt(UpperChars, i) : i \in 1..26}
LowerSet == {CharAt(LowerChars, i) : i \in 1..26}

LowerMap == [c \in UpperSet |->
                CharAt(LowerChars, CHOOSE i \in 1..26 : CharAt(UpperChars, i) = c)]
UpperMap == [c \in LowerSet |->
                CharAt(UpperChars, CHOOSE i \in 1..26 : CharAt(LowerChars, i) = c)]

LowerChar(c) == IF c \in UpperSet THEN LowerMap[c] ELSE c
UpperChar(c) == IF c \in LowerSet THEN UpperMap[c] ELSE c
SwapChar(c) == IF c \in UpperSet THEN LowerMap[c]
               ELSE IF c \in LowerSet THEN UpperMap[c] ELSE c

RECURSIVE MapChars(_, _, _, _)
\* kind "lower": str.lower(); "upper": str.upper(); "swap": str.swapcase(),
\* of the characters lo..hi of s (halved, to keep the recursion shallow).
MapChars(kind, s, lo, hi) ==
    IF lo > hi THEN ""
    ELSE IF lo = hi
    THEN (CASE kind = "lower" -> LowerChar(CharAt(s, lo))
            [] kind = "upper" -> UpperChar(CharAt(s, lo))
            [] OTHER -> SwapChar(CharAt(s, lo)))
    ELSE LET mid == (lo + hi) \div 2
         IN  MapChars(kind, s, lo, mid) \o MapChars(kind, s, mid + 1, hi)

Lower(s) == MapChars("lower", s, 1, Len(s))
Upper(s) == MapChars("upper", s, 1, Len(s))
SwapCase(s) == MapChars("swap", s, 1, Len(s))

\* `k in s` for two strings: k occurs as a contiguous substring of s.
Contains(s, k) ==
    \E i \in 1..(Len(s) - Len(k) + 1) : SubSeq(s, i, i + Len(k) - 1) = k

RECURSIVE Join(_, _)
\* sep.join(list)
Join(list, sep) ==
    IF Len(list) = 0 THEN ""
    ELSE IF Len(list) = 1 THEN list[1]
    ELSE list[1] \o sep \o Join(Tail(list), sep)

(***************************************************************************)
(* Regular expressions, as the re module matches them: a pattern is a      *)
(* sequence of alternatives, an alternative a sequence of items, and a     *)
(* match is the first success of a backtracking search that prefers the    *)
(* longer repetition and the earlier alternative.                          *)
(***************************************************************************)
Lit(s) == [t |-> "lit", s |-> s, items |-> <<>>]         \* literal text
DigitsPlus == [t |-> "digits", s |-> "", items |-> <<>>] \* \d+
WsStar == [t |-> "ws", s |-> "", items |-> <<>>]         \* \s*
Opt(items) == [t |-> "opt", s |-> "", items |-> items]   \* (?:...)? and x?

RECURSIVE RunLen(_, _, _)
\* How many characters of s from pos on are in class.
RunLen(s, pos, class) ==
    IF pos <= Len(s) /\ CharAt(s, pos) \in class
    THEN 1 + RunLen(s, pos + 1, class)
    ELSE 0

RECURSIVE MatchItems(_, _, _, _)
RECURSIVE ItemEnds(_, _, _)
RECURSIVE EndsFrom(_, _, _, _, _)

\* The positions after item `it` matched at pos, in the order backtracking
\* tries them (greedy: the longest first).
ItemEnds(it, s, pos) ==
    CASE it.t = "lit" ->
            IF pos + Len(it.s) - 1 <= Len(s)
               /\ SubSeq(s, pos, pos + Len(it.s) - 1) = it.s
            THEN <<pos + Len(it.s)>> ELSE <<>>
      [] it.t = "digits" ->
            LET n == RunLen(s, pos, Digits) IN [k \in 1..n |-> pos + n - k + 1]
      [] it.t = "ws" ->
            LET n == RunLen(s, pos, Whitespace) IN [k \in 1..(n + 1) |-> pos + n - k + 1]
      [] OTHER -> MatchItems(it.items, 1, s, pos) \o <<pos>>

EndsFrom(ends, j, items, k, s) ==
    IF j > Len(ends) THEN <<>>
    ELSE MatchItems(items, k + 1, s, ends[j]) \o EndsFrom(ends, j + 1, items, k, s)

\* The positions after items[k..] matched at pos, in backtracking order.
MatchItems(items, k, s, pos) ==
    IF k > Len(items) THEN <<pos>>
    ELSE EndsFrom(ItemEnds(items[k], s, pos), 1, items, k, s)

RECURSIVE AltEnds(_, _, _, _)
AltEnds(pattern, a, s, pos) ==
    IF a > Len(pattern) THEN <<>>
    ELSE MatchItems(pattern[a], 1, s, pos) \o AltEnds(pattern, a + 1, s, pos)

\* The position after the match of pattern at pos, 0 when it does not match.
MatchAt(pattern, s, pos) ==
    LET ends == AltEnds(pattern, 1, s, pos)
    IN  IF Len(ends) = 0 THEN 0 ELSE ends[1]

RECURSIVE FindAllFrom(_, _, _, _)
\* The matches from pos on: the scan moves to the next position where the
\* pattern matches, takes the match and goes on after it.
FindAllFrom(pattern, s, folded, pos) ==
    LET starts == {q \in pos..Len(s) : MatchAt(pattern, folded, q) # 0}
    IN  IF starts = {} THEN <<>>
        ELSE LET q == CHOOSE x \in starts : \A y \in starts : x <= y
                 e == MatchAt(pattern, folded, q)
             IN  <<SubSeq(s, q, e - 1)>>
                 \o FindAllFrom(pattern, s, folded, IF e > q THEN e ELSE q + 1)

\* re.findall(pattern, s, re.IGNORECASE) for a pattern that is one group:
\* the non-overlapping matches, left to right. The patterns are lower-case,
\* so ignoring case is matching on the lower-cased subject.
FindAll(pattern, s) == FindAllFrom(pattern, s, Lower(s), 1)

(***************************************************************************)
(* extract_experience_and_skills                                           *)
(***************************************************************************)
Years == <<Lit("year"), Opt(<<Lit("s")>>)>>   \* years?

\* (\d+\+?\s*years?\s*(?:of\s*)?experience)
PatYearsExperience ==
    << <<DigitsPlus, Opt(<<Lit("+")>>), WsStar>> \o Years
       \o <<WsStar, Opt(<<Lit("of"), WsStar>>), Lit("experience")>> >>
\* (minimum\s*\d+\s*years?)
PatMinimum == << <<Lit("minimum"), WsStar, DigitsPlus, WsStar>> \o Years >>
\* (\d+\s*to\s*\d+\s*years?)
PatRange == << <<DigitsPlus, WsStar, Lit("to"), WsStar, DigitsPlus, WsStar>> \o Years >>
\* (entry\s*level|junior|senior|principal|lead), without lead in scrape_microsoft_jobs.py
PatSeniority(sc) ==
    << <<Lit("entry"), WsStar, Lit("level")>>, <<Lit("junior")>>, <<Lit("senior")>>,
       <<Lit("principal")>> >>
    \o (IF sc = "github" THEN << <<Lit("lead")>> >> ELSE <<>>)
\* (bachelor|master|phd|degree)
PatDegree == << <<Lit("bachelor")>>, <<Lit("master")>>, <<Lit("phd")>>, <<Lit("degree")>> >>

experience_patterns(sc) ==
    <<PatYearsExperience, PatMinimum, PatRange, PatSeniority(sc), PatDegree>>

skill_keywords(sc) ==
    IF sc = "github"
    THEN <<"python", "java", "javascript", "typescript", "go", "rust", "c#", "c++",
           "sql", "html", "css", "react", "vue", "angular", "node.js", "docker",
           "kubernetes", "aws", "azure", "gcp", "git", "github", "linux", "bash",
           "machine learning", "ai", "data science", "analytics", "cloud",
           "agile", "scrum", "devops", "ci/cd", "terraform", "ansible">>
    ELSE <<"python", "java", "javascript", "c#", "c++", "sql", "azure", "aws",
           "react", "angular", "node.js", "kubernetes", "docker", "git",
           "machine learning", "ai", "data science", "analytics", "cloud",
           "agile", "scrum", "devops", "ci/cd", "tensorflow", "pytorch">>

\* The literal 10 of found_skills[:10].
MaxSkills == 10

\* matches[0] of a non-empty findall result.
LastMatch(matches) == matches[Len(matches)]
FirstMatch(matches) == matches[1]

RECURSIVE ExperienceNoBreak(_, _, _, _)
\* The loop without its break: the last matching pattern wins.
ExperienceNoBreak(patterns, k, desc_lower, experience) ==
    IF k > Len(patterns) THEN experience
    ELSE LET matches == FindAll(patterns[k], desc_lower)
         IN  ExperienceNoBreak(patterns, k + 1, desc_lower,
                 IF Len(matches) > 0 THEN FirstMatch(matches) ELSE experience)

RECURSIVE ExperienceLoop(_, _, _, _)
\* for pattern in experience_patterns: ... if matches: experience = matches[0]; break
ExperienceLoop(patterns, k, desc_lower, experience) ==
    IF k > Len(patterns) THEN experience
    ELSE LET matches == FindAll(patterns[k], desc_lower)
         IN  IF Len(matches) > 0 THEN FirstMatch(matches)
             ELSE ExperienceLoop(patterns, k + 1, desc_lower, experience)

\* k occurs in s with no letter, digit or underscore next to it on either side.
WordChars == LowerSet \cup UpperSet \cup Digits \cup {"_"}
WholeWord(s, k) ==
    \E i \in 1..(Len(s) - Len(k) + 1) :
        /\ SubSeq(s, i, i + Len(k) - 1) = k
        /\ (i = 1 \/ CharAt(s, i - 1) \notin WordChars)
        /\ (i + Len(k) - 1 = Len(s) \/ CharAt(s, i + Len(k)) \notin WordChars)

RECURSIVE FoundWholeWords(_, _, _)
FoundWholeWords(keywords, k, desc_lower) ==
    IF k > Len(keywords) THEN <<>>
    ELSE (IF WholeWord(desc_lower, Lower(keywords[k])) THEN <<keywords[k]>> ELSE <<>>)
         \o FoundWholeWords(keywords, k + 1, desc_lower)

RECURSIVE FoundSkills(_, _, _)
\* for skill in skill_keywords: if skill.lower() in desc_lower: found_skills.append(skill)
FoundSkills(keywords, k, desc_lower) ==
    IF k > Len(keywords) THEN <<>>
    ELSE (IF Contains(desc_lower, Lower(keywords[k])) THEN <<keywords[k]>> ELSE <<>>)
         \o FoundSkills(keywords, k + 1, desc_lower)

\* found_skills[:10]
NoLimit(found) == found
LastSkills(found) == SubSeq(found, Len(found) - Min(MaxSkills, Len(found)) + 1, Len(found))
TopSkills(found) == SubSeq(found, 1, Min(MaxSkills, Len(found)))

\* desc_lower = job_description.lower()
DescNotLowered(text) == text
DescLower(text) == Lower(text)

Return(experience, skills) == [raised |-> "", experience |-> experience, skills |-> skills]
Raise(exc) == [raised |-> exc, experience |-> "", skills |-> ""]

\* The function: a pair (experience, skills), or the exception it raises.
extract_experience_and_skills(sc, description) ==
    IF Falsy(description) THEN Return("", "")
    ELSE IF description.type # "str" THEN Raise("AttributeError")  \* no .lower()
    ELSE LET desc_lower == DescLower(description.val)
         IN  Return(ExperienceLoop(experience_patterns(sc), 1, desc_lower, ""),
                    Join(TopSkills(FoundSkills(skill_keywords(sc), 1, desc_lower)), ", "))

(***************************************************************************)
(* The values the variables of the other operations rest at.               *)
(***************************************************************************)
NoPage == [elements |-> <<>>]
NoDetails == [raised |-> "", description |-> "", experience |-> "", skills |-> "",
              summary |-> "", salary |-> ""]
NoFile == [exists |-> FALSE, columns |-> <<>>, rows |-> <<>>]

ExtractIdle == /\ ret = Return("", "")
               /\ job_description = None
DetailIdle == /\ fetch_ok = FALSE
              /\ page = NoPage
              /\ job_details = NoDetails
SaveIdle == /\ jobs = List(<<>>)
            /\ write_ok = FALSE
            /\ file = NoFile
            /\ save_ret = None
NoDataFrame == [columns |-> <<>>, rows |-> <<>>]
NoIo == [op |-> "", by |-> "", url |-> "", secs |-> 0]
NoSoup == [elements |-> <<>>]
NoCard == [job_title |-> "", job_url |-> "", location |-> ""]
MainIdle == /\ test_ok = FALSE
            /\ raised_exc = ""
            /\ escaped = ""
            /\ io = <<NoIo, NoIo>>
            /\ page_no = 0
            /\ url_index = 1
            /\ listing_ok = FALSE
            /\ soup = NoSoup
            /\ working_url = ""
            /\ job_cards = <<>>
            /\ consulted = 0
            /\ card_index = 0
            /\ card_data = NoCard
            /\ detail_calls = 0
            /\ page_jobs = <<>>
            /\ all_jobs = <<>>
            /\ scraped = <<>>
VerifyIdle == /\ read_ok = FALSE
              /\ verify_df = NoDataFrame
              /\ all_columns_present = FALSE
              /\ verify_ret = None

(***************************************************************************)
(* Calls of extract_experience_and_skills: the description is None or a    *)
(* text made of up to MaxFragments fragments of job descriptions.          *)
(***************************************************************************)
Fragments ==
    { "5+ years of experience",
      "5+ YEARS OF EXPERIENCE ",
      "3 Years Experience. ",
      "1",
      "Minimum 2 years; ",
      "2 to 4 years ",
      "Senior or junior ",
      "team lead, ",
      "entry\nlevel ",
      "Bachelor degree\n",
      "PYTHON and JavaScript ",
      "Javascript. ",
      "agile cloud ai git docker react aws azure sql c++ c# java python " }

RECURSIVE TextsOf(_)
\* The concatenations of exactly n fragments.
TextsOf(n) ==
    IF n = 0 THEN {""}
    ELSE {t \o f : t \in TextsOf(n - 1), f \in Fragments}

Texts == UNION {TextsOf(n) : n \in 0..MaxFragments}

Extractors == {"github", "microsoft"}

InitExtract ==
    /\ scraper \in Extractors
    /\ pc = "call"
    /\ job_description \in {None} \cup {Str(t) : t \in Texts}
    /\ ret = Return("", "")
    /\ DetailIdle
    /\ SaveIdle
    /\ VerifyIdle
    /\ MainIdle

ExtractExperienceAndSkills ==
    /\ pc = "call"
    /\ ret' = extract_experience_and_skills(scraper, job_description)
    /\ pc' = "return"
    /\ UNCHANGED <<scraper, job_description, fetch_ok, page, job_details,
                   jobs, write_ok, file, save_ret, verifyVars, mainVars>>

NextExtract == ExtractExperienceAndSkills

SpecExtract == InitExtract /\ [][NextExtract]_vars

(***************************************************************************)
(* get_job_detail: the page is a sequence of elements in document order,   *)
(* each with the selectors it matches and its text nodes.                  *)
(***************************************************************************)
description_selectors(sc) ==
    IF sc = "github"
    THEN <<".markdown-body", ".job-description", ".job-details", ".content", "main",
           "[data-target=\"readme-toc.content\"]">>
    ELSE <<".job-description", ".job-details", "[data-ph-at-id=\"job-description\"]",
           ".content", "main">>

\* The literal 200 of description[:200] and len(description) > 200.
SummaryLen == 200

\* str.strip(): without the leading and the trailing whitespace.
Strip(s) ==
    LET inked == {i \in 1..Len(s) : CharAt(s, i) \notin Whitespace}
    IN  IF inked = {} THEN ""
        ELSE SubSeq(s, CHOOSE i \in inked : \A j \in inked : i <= j,
                       CHOOSE i \in inked : \A j \in inked : i >= j)

RECURSIVE GetTextStrip(_, _)
\* element.get_text(strip=True): the text nodes, each stripped, the empty ones
\* dropped, joined with nothing between them.
GetTextStrip(nodes, k) ==
    IF k > Len(nodes) THEN ""
    ELSE Strip(nodes[k]) \o GetTextStrip(nodes, k + 1)

\* soup.select_one(selector): the place of the first element, in document
\* order, that matches the selector; 0 for None.
SelectOne(pg, selector) ==
    LET hits == {e \in 1..Len(pg.elements) : selector \in pg.elements[e].selectors}
    IN  IF hits = {} THEN 0 ELSE CHOOSE e \in hits : \A f \in hits : e <= f

RECURSIVE DescriptionOf(_, _, _)
\* for selector in description_selectors: ... if desc_element: ...; break
DescriptionOf(pg, selectors, k) ==
    IF k > Len(selectors) THEN ""
    ELSE LET e == SelectOne(pg, selectors[k])
         IN  IF e # 0 THEN GetTextStrip(pg.elements[e].nodes, 1)
             ELSE DescriptionOf(pg, selectors, k + 1)

\* summary = description[:200] + "..." if len(description) > 200 else description
SummaryAtLimitToo(description) ==
    IF Len(description) >= SummaryLen
    THEN SubSeq(description, 1, Min(SummaryLen, Len(description))) \o "..."
    ELSE description
Summary(description) ==
    IF Len(description) > SummaryLen
    THEN SubSeq(description, 1, Min(SummaryLen, Len(description))) \o "..."
    ELSE description

\* A dict that reports the failure in its fields.
ErrorDetails == [raised |-> "", description |-> "", experience |-> "error",
                 skills |-> "error", summary |-> "error", salary |-> ""]
\* The dict of the except branch.
EmptyDetails == [raised |-> "", description |-> "", experience |-> "", skills |-> "",
                 summary |-> "", salary |-> ""]

\* The function: ok is whether the GET and raise_for_status succeed.
get_job_detail(sc, ok, pg) ==
    IF ~ok THEN EmptyDetails
    ELSE LET description == DescriptionOf(pg, description_selectors(sc), 1)
             extracted == extract_experience_and_skills(sc, Str(description))
         IN  IF extracted.raised # "" THEN EmptyDetails
             ELSE [raised |-> "", description |-> description,
                   experience |-> extracted.experience, skills |-> extracted.skills,
                   summary |-> Summary(description), salary |-> ""]

(***************************************************************************)
(* Calls of get_job_detail: the fetch fails, or it yields a page whose     *)
(* description is a job text of up to MaxDescLen characters.               *)
(***************************************************************************)
JobText ==
    "Senior Python developer, 5+ years of experience with AWS and SQL. "
    \o "You will lead a small team; a bachelor degree is a plus. "
BodyText == JobText \o JobText \o JobText

\* A page whose only description element is <main>, one text node of n characters.
PageMain(n) ==
    [elements |-> << [selectors |-> {"main"}, nodes |-> <<SubSeq(BodyText, 1, n)>>] >>]
\* A page with the site chrome in <main> first and the description after it,
\* its text between line breaks and followed by an empty node.
PageTwo(n) ==
    [elements |-> << [selectors |-> {"main", ".content"}, nodes |-> <<"Careers", " Menu ">>],
                     [selectors |-> {".job-description"},
                      nodes |-> <<"\n  " \o SubSeq(BodyText, 1, n) \o "\n", "\t">>] >>]
\* A page none of whose elements matches a description selector.
PageNone == [elements |-> << [selectors |-> {"footer"}, nodes |-> <<"Contact">>] >>]

Pages == {PageNone} \cup {PageMain(n) : n \in 0..MaxDescLen}
                    \cup {PageTwo(n) : n \in 0..MaxDescLen}

InitDetail ==
    /\ scraper \in Extractors
    /\ pc = "call"
    /\ fetch_ok \in BOOLEAN
    /\ page \in (IF fetch_ok THEN Pages ELSE {NoPage})
    /\ job_details = NoDetails
    /\ ExtractIdle
    /\ SaveIdle
    /\ VerifyIdle
    /\ MainIdle

GetJobDetail ==
    /\ pc = "call"
    /\ job_details' = get_job_detail(scraper, fetch_ok, page)
    /\ pc' = "return"
    /\ UNCHANGED <<scraper, job_description, ret, fetch_ok, page,
                   jobs, write_ok, file, save_ret, verifyVars, mainVars>>

NextDetail == GetJobDetail

SpecDetail == InitDetail /\ [][NextDetail]_vars

(***************************************************************************)
(* save_to_excel: a record is a dict, its items in insertion order as      *)
(* <<key, value>> pairs; a DataFrame is its column names and its rows,     *)
(* each row the cells under those columns.                                 *)
(***************************************************************************)
required_columns ==
    <<"JobTitle", "Location", "ExperienceRequired", "SkillsRequired", "Salary",
      "JobURL", "JobDescriptionSummary">>

Bool(b) == [type |-> "bool", val |-> IF b THEN "True" ELSE "False"]

Keys(record) == {record[k][1] : k \in 1..Len(record)}
Get(record, key) == record[CHOOSE k \in 1..Len(record) : record[k][1] = key][2]

IndexOf(seq, x) == CHOOSE k \in 1..Len(seq) : seq[k] = x
InSeq(seq, x) == \E k \in 1..Len(seq) : seq[k] = x

RECURSIVE NewKeys(_, _, _)
\* The keys of record from item k on that are not among columns, in order.
NewKeys(record, k, columns) ==
    IF k > Len(record) THEN <<>>
    ELSE (IF InSeq(columns, record[k][1]) THEN <<>> ELSE <<record[k][1]>>)
         \o NewKeys(record, k + 1, columns)

RECURSIVE ColumnsOf(_, _, _)
\* The keys of the records in the order they first appear.
ColumnsOf(records, i, columns) ==
    IF i > Len(records) THEN columns
    ELSE ColumnsOf(records, i + 1, columns \o NewKeys(records[i], 1, columns))

\* pd.DataFrame(jobs): one column per key, a missing key is NaN.
DataFrame(records) ==
    LET columns == ColumnsOf(records, 1, <<>>)
    IN  [columns |-> columns,
         rows |-> [i \in 1..Len(records) |->
                      [j \in 1..Len(columns) |->
                          IF columns[j] \in Keys(records[i])
                          THEN Get(records[i], columns[j]) ELSE NaN]]]

\* if col not in df.columns: df[col] = ""
WithColumn(df, col) ==
    IF InSeq(df.columns, col) THEN df
    ELSE [columns |-> Append(df.columns, col),
          rows |-> [i \in 1..Len(df.rows) |-> Append(df.rows[i], Str(""))]]

RECURSIVE EnsureColumns(_, _, _)
\* for col in required_columns: ...
EnsureColumns(df, cols, k) ==
    IF k > Len(cols) THEN df
    ELSE EnsureColumns(WithColumn(df, cols[k]), cols, k + 1)

\* df[required_columns]: those columns, in that order.
KeepColumns(df, cols) == df
Reorder(df, cols) ==
    [columns |-> cols,
     rows |-> [i \in 1..Len(df.rows) |->
                  [j \in 1..Len(cols) |-> df.rows[i][IndexOf(df.columns, cols[j])]]]]

\* The table as it is, its missing values left in.
NoFillNa(df) == df
\* df.fillna(""): NaN and None become "".
FillNa(df) ==
    [columns |-> df.columns,
     rows |-> [i \in 1..Len(df.rows) |->
                  [j \in 1..Len(df.columns) |->
                      IF df.rows[i][j] \in {NaN, None} THEN Str("") ELSE df.rows[i][j]]]]

\* With the index written, the sheet has one more column in front.
WrittenWithIndex(df) ==
    [exists |-> TRUE, columns |-> <<"Unnamed: 0">> \o df.columns,
     rows |-> [i \in 1..Len(df.rows) |->
                  <<[type |-> "int", val |-> SubSeq("0123456789", i, i)]>> \o df.rows[i]]]
\* The table df.to_excel(filename, index=False) writes: a header row and the rows.
Written(df) == [exists |-> TRUE, columns |-> df.columns, rows |-> df.rows]

\* The function, from the file as it is: the file after the call and the value
\* returned. ok is whether df.to_excel succeeds; when it raises, the file is
\* taken to be as it was and the except branch returns.
save_to_excel(sc, js, ok, old) ==
    IF Falsy(js) THEN [file |-> old, ret |-> None]
    ELSE IF ~ok THEN [file |-> old, ret |-> IF sc = "tech" THEN Bool(FALSE) ELSE None]
    ELSE [file |-> Written(FillNa(Reorder(
                       EnsureColumns(DataFrame(js.val), required_columns, 1),
                       required_columns))),
          ret |-> IF sc = "tech" THEN Bool(TRUE) ELSE None]

(***************************************************************************)
(* Calls of save_to_excel, one after the other on the script's file, with  *)
(* lists of up to MaxJobs records.                                         *)
(***************************************************************************)
Scrapers == {"github", "microsoft", "tech"}

\* A record as the scrapers build it.
FullRecord ==
    << <<"JobTitle", Str("Data Engineer")>>, <<"Location", Str("Remote")>>,
       <<"ExperienceRequired", Str("senior")>>, <<"SkillsRequired", Str("python, sql")>>,
       <<"Salary", Str("")>>, <<"JobURL", Str("https://github.com/about/careers/1")>>,
       <<"JobDescriptionSummary", Str("Build pipelines")>> >>
\* Keys in another order, one of them outside the schema, several missing,
\* and a location that is None.
PartialRecord ==
    << <<"JobURL", Str("https://remoteok.io/2")>>, <<"Company", Str("Acme")>>,
       <<"Location", None>>, <<"JobTitle", Str("QA Engineer")>> >>
\* The dict without items.
EmptyRecord == <<>>

RecordPool == {FullRecord, PartialRecord, EmptyRecord}

JobLists == UNION {[1..n -> RecordPool] : n \in 0..MaxJobs}

InitSave ==
    /\ scraper \in Scrapers
    /\ pc = "start"
    /\ ExtractIdle
    /\ DetailIdle
    /\ SaveIdle
    /\ VerifyIdle
    /\ MainIdle

SaveToExcel ==
    \E js \in JobLists, ok \in BOOLEAN :
        LET out == save_to_excel(scraper, List(js), ok, file)
        IN  /\ jobs' = List(js)
            /\ write_ok' = ok
            /\ file' = out.file
            /\ save_ret' = out.ret
            /\ pc' = "return"
            /\ UNCHANGED <<scraper, job_description, ret, fetch_ok, page, job_details,
                           verifyVars, mainVars>>

NextSave == SaveToExcel

SpecSave == InitSave /\ [][NextSave]_vars

(***************************************************************************)
(* verify_excel_file of verify_excel.py. pd.read_excel takes the first row *)
(* of the sheet as the column names, reads an empty cell as NaN, and drops *)
(* the rows after the last row that has a non-empty cell.                  *)
(***************************************************************************)
SampleRows == 3

\* The number of the last row that has a non-empty cell, 0 when there is none.
LastRowWithData(rows) ==
    LET with == {i \in 1..Len(rows) :
                    \E j \in 1..Len(rows[i]) : rows[i][j] \notin {Str(""), None, NaN}}
    IN  IF with = {} THEN 0 ELSE CHOOSE i \in with : \A k \in with : k <= i

\* A cell as read_excel gives it: an empty cell is NaN.
ReadCell(cell) == IF cell \in {Str(""), None, NaN} THEN NaN ELSE cell

\* df = pd.read_excel(filename)
ReadExcel(f) ==
    [columns |-> f.columns,
     rows |-> [i \in 1..LastRowWithData(f.rows) |->
                  [j \in 1..Len(f.rows[i]) |-> ReadCell(f.rows[i][j])]]]

\* The columns the sample loop reads from each of the first rows.
sample_columns ==
    <<"JobTitle", "Location", "ExperienceRequired", "SkillsRequired", "JobURL">>

\* for idx, row in df.head(3).iterrows(): row['JobTitle'] ... raises KeyError
\* when there is a row and one of the columns it reads is not in the table.
SampleRaises(df) ==
    /\ Min(SampleRows, Len(df.rows)) > 0
    /\ \E k \in 1..Len(sample_columns) : ~InSeq(df.columns, sample_columns[k])

\* The function: the table read, the flag printed and the value returned.
\* ok is whether pd.read_excel succeeds on the file.
verify_excel_file(f, ok) ==
    IF ~f.exists
    THEN [df |-> NoDataFrame, all_columns_present |-> FALSE, ret |-> Bool(FALSE)]
    ELSE IF ~ok
    THEN [df |-> NoDataFrame, all_columns_present |-> FALSE, ret |-> Bool(FALSE)]
    ELSE LET df == ReadExcel(f)
             present == \A k \in 1..Len(required_columns) :
                            InSeq(df.columns, required_columns[k])
         IN  [df |-> df, all_columns_present |-> present,
              ret |-> IF SampleRaises(df) THEN Bool(FALSE) ELSE Bool(TRUE)]

VerifyExcelFile ==
    /\ pc # "verified"
    /\ \E ok \in BOOLEAN :
        LET out == verify_excel_file(file, ok)
        IN  /\ read_ok' = ok
            /\ verify_df' = out.df
            /\ all_columns_present' = out.all_columns_present
            /\ verify_ret' = out.ret
    /\ pc' = "verified"
    /\ UNCHANGED <<scraper, job_description, ret, fetch_ok, page, job_details,
                   jobs, write_ok, file, save_ret, mainVars>>

(***************************************************************************)
(* A script saves, any number of times, and verify_excel_file then reads   *)
(* the script's file.                                                      *)
(***************************************************************************)
InitRoundTrip == InitSave

NextRoundTrip ==
    \/ pc # "verified" /\ SaveToExcel
    \/ VerifyExcelFile

SpecRoundTrip == InitRoundTrip /\ [][NextRoundTrip]_vars

(***************************************************************************)
(* verify_excel_file on a file as it may lie on the disk: absent, or a     *)
(* sheet with some of the seven columns, with or without an index column   *)
(* in front, and up to MaxFileRows rows.                                   *)
(***************************************************************************)
RECURSIVE ColumnsAmong(_, _)
\* The columns of the schema whose numbers are in S, from number k on, in order.
ColumnsAmong(S, k) ==
    IF k > Len(required_columns) THEN <<>>
    ELSE (IF k \in S THEN <<required_columns[k]>> ELSE <<>>) \o ColumnsAmong(S, k + 1)

Sheet(columns, n) ==
    [exists |-> TRUE, columns |-> columns,
     rows |-> [i \in 1..n |-> [j \in 1..Len(columns) |-> Str("x")]]]

DiskFiles ==
    {NoFile}
    \cup {Sheet(front \o ColumnsAmong(S, 1), IF front = <<>> /\ S = {} THEN 0 ELSE n) :
              front \in {<<>>, <<"Unnamed: 0">>},
              S \in SUBSET (1..Len(required_columns)),
              n \in 0..MaxFileRows}

InitVerify ==
    /\ scraper = "tech"
    /\ pc = "call"
    /\ ExtractIdle
    /\ DetailIdle
    /\ jobs = List(<<>>)
    /\ write_ok = FALSE
    /\ file \in DiskFiles
    /\ save_ret = None
    /\ VerifyIdle
    /\ MainIdle

NextVerify == VerifyExcelFile

SpecVerify == InitVerify /\ [][NextVerify]_vars

(***************************************************************************)
(* Listing pages. A page is its top-level elements in document order; an   *)
(* element has a tag name, the class and attribute selectors it matches,   *)
(* its href (None without the attribute), its text nodes (those of the     *)
(* elements inside it included) and the elements inside it.                *)
(***************************************************************************)
Element(name, selectors, href, nodes, inner) ==
    [name |-> name, selectors |-> selectors, href |-> href, nodes |-> nodes,
     inner |-> inner]

RECURSIVE Descend(_, _)
\* The elements from number k on with the elements inside them, in document order.
Descend(elements, k) ==
    IF k > Len(elements) THEN <<>>
    ELSE <<elements[k]>> \o elements[k].inner \o Descend(elements, k + 1)

HrefContains(e, part) == e.href # None /\ Contains(e.href.val, part)

\* Whether the element matches the CSS selector: the a[href*=...] selectors
\* and the tag selector by what they say, the others by the element's set.
Matches(e, selector) ==
    CASE selector = "a[href*=\"/careers/positions/\"]" ->
             e.name = "a" /\ HrefContains(e, "/careers/positions/")
      [] selector = "a[href*=\"jobs\"]" -> e.name = "a" /\ HrefContains(e, "jobs")
      [] selector = "a[href*=\"job\"]" -> e.name = "a" /\ HrefContains(e, "job")
      [] selector = "article" -> e.name = "article"
      [] OTHER -> selector \in e.selectors

\* soup.select(selector): the matching elements in document order.
Select(elements, selector) ==
    SelectSeq(Descend(elements, 1), LAMBDA e : Matches(e, selector))

job_selectors(sc) ==
    IF sc = "github"
    THEN <<".job-listing", ".position", ".career-position",
           "a[href*=\"/careers/positions/\"]", "a[href*=\"jobs\"]">>
    ELSE <<".jobs-list-item", "[data-ph-at-id=\"job-item\"]", ".job-item",
           ".search-result-item", "article", ".result-item">>

\* The loop without its break: the result set of the last selector.
LastSelectorCards(pg, selectors, k) ==
    [cards |-> Select(pg.elements, selectors[Len(selectors)]),
     consulted |-> Len(selectors)]

RECURSIVE SelectCards(_, _, _)
\* for selector in job_selectors: job_cards = soup.select(selector);
\* if job_cards: break. consulted is the number of selectors tried.
SelectCards(pg, selectors, k) ==
    IF k > Len(selectors) THEN [cards |-> <<>>, consulted |-> Len(selectors)]
    ELSE LET cards == Select(pg.elements, selectors[k])
         IN  IF Len(cards) > 0 THEN [cards |-> cards, consulted |-> k]
             ELSE SelectCards(pg, selectors, k + 1)

link_keywords == {"job", "career", "position", "opening"}

\* The links with an href that has one of the keywords in it, in any case.
JobLinks(pg) ==
    SelectSeq(Descend(pg.elements, 1),
              LAMBDA e : /\ e.name = "a"
                         /\ e.href # None
                         /\ \E keyword \in link_keywords :
                                Contains(Lower(e.href.val), keyword))

\* The cards get_job_listings goes through: those of the selector loop and,
\* in the GitHub script, the job links when the loop found none.
JobCards(sc, pg) ==
    LET found == SelectCards(pg, job_selectors(sc), 1)
    IN  IF sc = "github" /\ Len(found.cards) = 0
        THEN [cards |-> JobLinks(pg), consulted |-> found.consulted]
        ELSE found

StartsWith(s, prefix) ==
    Len(s) >= Len(prefix) /\ SubSeq(s, 1, Len(prefix)) = prefix

\* urljoin(base, href) for an empty href, an absolute URL, a path from the
\* root and a path beside the last segment of base.
urljoin(base, href) ==
    LET slashes == {i \in 9..Len(base) : CharAt(base, i) = "/"}
        marks == {i \in 1..Len(base) : CharAt(base, i) = "?"}
        path_end == IF marks = {} THEN Len(base)
                    ELSE (CHOOSE i \in marks : \A j \in marks : i <= j) - 1
        origin_end == IF slashes = {} THEN Len(base)
                      ELSE (CHOOSE i \in slashes : \A j \in slashes : i <= j) - 1
        before == {i \in slashes : i <= path_end}
        dir_end == IF before = {} THEN origin_end
                   ELSE CHOOSE i \in before : \A j \in before : i >= j
    IN  IF href = "" THEN base
        ELSE IF StartsWith(href, "https://") \/ StartsWith(href, "http://")
        THEN href
        ELSE IF CharAt(href, 1) = "/" THEN SubSeq(base, 1, origin_end) \o href
        ELSE SubSeq(base, 1, dir_end) \o href

GITHUB_BASE_URL == "https://github.com/about/careers"
MinTitleLen == 3

HrefOr(e, default) == IF e.href = None THEN default ELSE e.href.val

\* The title, the URL and the location the GitHub script takes from a card.
GithubCard(card) ==
    LET links == SelectSeq(card.inner, LAMBDA e : e.name = "a")
    IN  IF card.name = "a"
        THEN [job_title |-> GetTextStrip(card.nodes, 1),
              job_url |-> urljoin(GITHUB_BASE_URL, HrefOr(card, "")),
              location |-> "Remote/Global"]
        ELSE IF Len(links) > 0
        THEN [job_title |-> GetTextStrip(links[1].nodes, 1),
              job_url |-> urljoin(GITHUB_BASE_URL, HrefOr(links[1], "")),
              location |-> "Remote/Global"]
        ELSE [job_title |-> GetTextStrip(card.nodes, 1), job_url |-> "",
              location |-> "Remote/Global"]

title_selectors ==
    <<"a[data-ph-at-id=\"job-title\"]", ".job-title", "h2 a", "h3 a", "a[href*=\"job\"]">>
location_selectors ==
    <<"[data-ph-at-id=\"location\"]", ".job-location", ".location",
      "span[title*=\"location\"]">>

RECURSIVE FirstInCard(_, _, _)
\* for selector in selectors: element = card.select_one(selector);
\* if element: ...; break. The element found, or None.
FirstInCard(card, selectors, k) ==
    IF k > Len(selectors) THEN None
    ELSE LET hits == SelectSeq(card.inner, LAMBDA e : Matches(e, selectors[k]))
         IN  IF Len(hits) > 0 THEN hits[1] ELSE FirstInCard(card, selectors, k + 1)

\* The title, the URL and the location the Microsoft script takes from a card.
MicrosoftCard(card, base) ==
    LET title_element == FirstInCard(card, title_selectors, 1)
        location_element == FirstInCard(card, location_selectors, 1)
    IN  [job_title |-> IF title_element = None THEN ""
                       ELSE GetTextStrip(title_element.nodes, 1),
         job_url |-> IF title_element = None \/ HrefOr(title_element, "") = "" THEN ""
                     ELSE urljoin(base, title_element.href.val),
         location |-> IF location_element = None THEN ""
                      ELSE GetTextStrip(location_element.nodes, 1)]

\* if not job_title (or, GitHub, len(job_title.strip()) < 3): continue
SkipsCard(sc, c) ==
    \/ c.job_title = ""
    \/ sc = "github" /\ Len(Strip(c.job_title)) < MinTitleLen

\* if job_url (and, GitHub, 'github.com' in job_url): get_job_detail(job_url)
FetchesDetail(sc, c) ==
    /\ c.job_url # ""
    /\ sc = "github" => Contains(c.job_url, "github.com")

\* The dict get_job_listings appends for a card.
JobData(c, details) ==
    << <<"JobTitle", Str(c.job_title)>>, <<"Location", Str(c.location)>>,
       <<"ExperienceRequired", Str(details.experience)>>,
       <<"SkillsRequired", Str(details.skills)>>, <<"Salary", Str(details.salary)>>,
       <<"JobURL", Str(c.job_url)>>,
       <<"JobDescriptionSummary", Str(details.summary)>> >>

(***************************************************************************)
(* scrape_tech_jobs.py: the sample data and the two listing scrapers.      *)
(***************************************************************************)
job_titles ==
    <<
      "Senior Software Engineer",
      "Data Scientist",
      "Product Manager",
      "DevOps Engineer",
      "Frontend Developer",
      "Backend Developer",
      "Machine Learning Engineer",
      "Cloud Architect",
      "UI/UX Designer",
      "Technical Program Manager",
      "Site Reliability Engineer",
      "Security Engineer",
      "Mobile Developer",
      "Full Stack Developer",
      "Data Engineer",
      "Business Analyst",
      "QA Engineer",
      "Principal Software Engineer",
      "Research Scientist",
      "Engineering Manager"
    >>
locations ==
    <<
      "Seattle, WA",
      "San Francisco, CA",
      "New York, NY",
      "Austin, TX",
      "Boston, MA",
      "Remote",
      "Chicago, IL",
      "Los Angeles, CA",
      "Denver, CO",
      "Atlanta, GA",
      "Remote - US",
      "Portland, OR",
      "San Jose, CA",
      "Washington, DC",
      "Remote - Global"
    >>
experience_levels ==
    <<
      "3+ years",
      "5+ years",
      "7+ years",
      "2-4 years",
      "Entry level",
      "Senior level",
      "10+ years",
      "4-6 years",
      "Principal level",
      "Lead level",
      "1-3 years",
      "8+ years"
    >>
skills_sets ==
    <<
      "Python, Django, PostgreSQL, AWS, Docker",
      "JavaScript, React, Node.js, MongoDB, Git",
      "Java, Spring Boot, Microservices, Kubernetes, Jenkins",
      "C#, .NET, Azure, SQL Server, DevOps",
      "Go, Docker, Kubernetes, Terraform, AWS",
      "Python, TensorFlow, PyTorch, SQL, Machine Learning",
      "React, TypeScript, GraphQL, Jest, CSS",
      "AWS, CloudFormation, Lambda, S3, EC2",
      "Figma, Sketch, Adobe Creative Suite, Prototyping",
      "Agile, Scrum, JIRA, Confluence, Leadership",
      "Linux, Bash, Monitoring, Alerting, SRE",
      "Cybersecurity, Penetration Testing, SIEM, Compliance",
      "Swift, iOS, Objective-C, Xcode, App Store",
      "Angular, Vue.js, HTML5, CSS3, Webpack",
      "Spark, Hadoop, Airflow, ETL, Data Warehousing",
      "SQL, Tableau, Power BI, Statistics, Excel",
      "Selenium, JUnit, TestNG, Automation, Performance Testing",
      "Architecture, System Design, Scalability, Performance",
      "Research, Publications, PhD, Algorithm Design",
      "Team Leadership, Project Management, Strategy"
    >>
descriptions ==
    <<
      "Join our team to build scalable software solutions that impact"
        \o " millions of users worldwide. You'll work with cutting-edge te"
        \o "chnologies and collaborate with talented engineers.",
      "We're looking for a passionate data scientist to extract insig"
        \o "hts from large datasets and build predictive models that drive"
        \o " business decisions.",
      "Lead product strategy and roadmap for our flagship products. W"
        \o "ork closely with engineering, design, and business teams to de"
        \o "liver exceptional user experiences.",
      "Design and maintain our cloud infrastructure. Implement CI/CD "
        \o "pipelines and ensure high availability of our services.",
      "Create beautiful and intuitive user interfaces using modern we"
        \o "b technologies. Collaborate with designers and backend enginee"
        \o "rs.",
      "Build robust backend services and APIs. Work with databases, d"
        \o "istributed systems, and ensure high performance and reliabilit"
        \o "y.",
      "Develop machine learning models and deploy them at scale. Work"
        \o " on computer vision, NLP, and recommendation systems.",
      "Design cloud architecture for enterprise-scale applications. F"
        \o "ocus on security, scalability, and cost optimization.",
      "Design user-centered experiences for web and mobile applicatio"
        \o "ns. Conduct user research and create prototypes.",
      "Drive technical programs across multiple engineering teams. En"
        \o "sure successful delivery of complex projects."
    >>
base_urls ==
    <<
      "https://careers.microsoft.com/job/",
      "https://jobs.google.com/job/",
      "https://careers.amazon.com/job/",
      "https://careers.apple.com/job/",
      "https://careers.netflix.com/job/"
    >>

SampleCount == 25
SampleFirstId == 1000
DrawsPerJob == 6

\* random.choice(list) at draw number draw of a run whose generator was
\* seeded with seed: the entries are taken in rotation from the seed on.
Choice(list, seed, draw) == list[((seed + draw) % Len(list)) + 1]

\* The dict built at round i of for i in range(25).
SampleJob(seed, i) ==
    << <<"JobTitle", Str(Choice(job_titles, seed, DrawsPerJob * i))>>,
       <<"Location", Str(Choice(locations, seed, DrawsPerJob * i + 1))>>,
       <<"ExperienceRequired", Str(Choice(experience_levels, seed, DrawsPerJob * i + 2))>>,
       <<"SkillsRequired", Str(Choice(skills_sets, seed, DrawsPerJob * i + 3))>>,
       <<"Salary", Str("")>>,
       <<"JobURL", Str(Choice(base_urls, seed, DrawsPerJob * i + 4)
                       \o ToString(SampleFirstId + i))>>,
       <<"JobDescriptionSummary", Str(Choice(descriptions, seed, DrawsPerJob * i + 5))>> >>

NoSampleJobs(seed) == <<>>
generate_sample_jobs(seed) == [k \in 1..SampleCount |-> SampleJob(seed, k - 1)]

RemoteOkLimit == 15
StackOverflowLimit == 10
TagLimit == 5
REMOTEOK_URL == "https://remoteok.io/remote-dev-jobs"
STACKOVERFLOW_URL == "https://stackoverflow.com/jobs"

\* card.find(name): the first element inside the card with that tag name, or None.
Find(card, name) ==
    LET hits == SelectSeq(card.inner, LAMBDA e : e.name = name)
    IN  IF Len(hits) > 0 THEN hits[1] ELSE None

\* card.find('a', href=True)
FindLink(card) ==
    LET hits == SelectSeq(card.inner, LAMBDA e : e.name = "a" /\ e.href # None)
    IN  IF Len(hits) > 0 THEN hits[1] ELSE None

\* element.get_text(strip=True) if element else default
TextOr(element, default) ==
    IF element = None THEN default ELSE GetTextStrip(element.nodes, 1)

\* [tag.get_text(strip=True) for tag in skill_elems[:5]]
TagTexts(row) ==
    LET tags == SelectSeq(row.inner, LAMBDA e : e.name = "span" /\ ".tag" \in e.selectors)
    IN  [k \in 1..Min(TagLimit, Len(tags)) |-> GetTextStrip(tags[k].nodes, 1)]

RemoteOkJob(row) ==
    << <<"JobTitle", Str(TextOr(Find(row, "h2"), "Unknown Title") \o " at "
                         \o TextOr(Find(row, "h3"), "Unknown Company"))>>,
       <<"Location", Str("Remote")>>,
       <<"ExperienceRequired", Str("")>>,
       <<"SkillsRequired", Str(Join(TagTexts(row), ", "))>>,
       <<"Salary", Str("")>>,
       <<"JobURL", Str(IF FindLink(row) = None THEN ""
                       ELSE urljoin(REMOTEOK_URL, FindLink(row).href.val))>>,
       <<"JobDescriptionSummary", Str("")>> >>

\* The function: ok is whether the GET and raise_for_status succeed.
try_scrape_remoteok(ok, pg) ==
    IF ~ok THEN <<>>
    ELSE LET job_rows == SelectSeq(Descend(pg.elements, 1),
                                   LAMBDA e : e.name = "tr" /\ ".job" \in e.selectors)
         IN  [k \in 1..Min(RemoteOkLimit, Len(job_rows)) |-> RemoteOkJob(job_rows[k])]

StackOverflowJob(card) ==
    LET location_element ==
            LET hits == SelectSeq(card.inner,
                                  LAMBDA e : e.name = "span" /\ ".fc-black-500" \in e.selectors)
            IN  IF Len(hits) > 0 THEN hits[1] ELSE None
    IN  << <<"JobTitle", Str(TextOr(Find(card, "h2"), "Unknown Title"))>>,
           <<"Location", Str(TextOr(location_element, "Remote"))>>,
           <<"ExperienceRequired", Str("")>>,
           <<"SkillsRequired", Str("")>>,
           <<"Salary", Str("")>>,
           <<"JobURL", Str(IF FindLink(card) = None THEN ""
                           ELSE urljoin(STACKOVERFLOW_URL, FindLink(card).href.val))>>,
           <<"JobDescriptionSummary", Str("")>> >>

try_scrape_stackoverflow_jobs(ok, pg) ==
    IF ~ok THEN <<>>
    ELSE LET so_cards == SelectSeq(Descend(pg.elements, 1),
                                   LAMBDA e : e.name = "div" /\ ".listResults" \in e.selectors)
         IN  [k \in 1..Min(StackOverflowLimit, Len(so_cards)) |->
                 StackOverflowJob(so_cards[k])]

(***************************************************************************)
(* The pages the listing requests may bring.                               *)
(***************************************************************************)
Link(selectors, href, text) == Element("a", selectors, Str(href), <<text>>, <<>>)
Text(name, selectors, text) == Element(name, selectors, None, <<text>>, <<>>)

\* Two .job-listing cards with a link inside, one to the site and one to
\* another site, and a link further down that a later selector would match.
GithubListings ==
    [elements |-> <<
        Element("div", {".job-listing"}, None, <<"Staff Engineer", " Remote ">>,
                <<Link({}, "/about/careers/positions/1", "Staff Engineer")>>),
        Element("div", {".job-listing"}, None, <<"\n Designer \n">>,
                <<Link({}, "https://boards.greenhouse.io/github/jobs/2", "\n Designer \n")>>),
        Link({}, "/jobs", "All jobs") >>]
\* .position cards without a link, the first with a title too short to count.
GithubPositions ==
    [elements |-> << Text("li", {".position"}, " QA "),
                     Text("li", {".position"}, "Security Engineer") >>]
\* No selector matches; one link has a keyword in its href.
GithubLinksOnly ==
    [elements |-> << Link({}, "/about/Careers/apply", "Apply now"),
                     Link({}, "/pricing", "Pricing") >>]
\* Neither a selector nor a keyword matches.
GithubNothing == [elements |-> << Text("p", {}, "We are not hiring") >>]

\* Two .jobs-list-item cards, inside an article that a later selector would
\* match: one with a title link and a location, one with a title that is no link.
MicrosoftItems ==
    [elements |-> <<
        Element("div", {".jobs-list-item"}, None, <<"Cloud Architect", "Redmond">>,
                << Link({"a[data-ph-at-id=\"job-title\"]"}, "job/1", "Cloud Architect"),
                   Text("span", {".job-location"}, " Redmond ") >>),
        Element("div", {".jobs-list-item"}, None, <<"Program Manager">>,
                << Text("span", {".job-title"}, "Program Manager") >>),
        Text("article", {}, "Cloud Architect Redmond Program Manager") >>]
\* article cards: one titled by a link in a heading, one without a title;
\* after them an element that the selector after article matches.
MicrosoftArticles ==
    [elements |-> <<
        Element("article", {}, None, <<"Data Scientist">>,
                << Link({"h2 a"}, "https://jobs.careers.microsoft.com/global/en/job/5",
                        "Data Scientist") >>),
        Element("article", {}, None, <<"Dublin">>,
                << Text("span", {".location"}, "Dublin") >>),
        Text("div", {".result-item"}, "Sponsored") >>]
\* A card without anything a title selector matches.
MicrosoftUntitled ==
    [elements |-> << Element("div", {".job-item"}, None, <<"Soon">>,
                             << Text("span", {}, "Soon") >>) >>]
\* No card.
MicrosoftNothing == [elements |-> << Text("p", {}, "No results") >>]

ListingPages(sc) ==
    IF sc = "github"
    THEN {GithubListings, GithubPositions, GithubLinksOnly, GithubNothing}
    ELSE {MicrosoftItems, MicrosoftArticles, MicrosoftUntitled, MicrosoftNothing}

\* A tr.job row with a title, a company, a link and six tags.
FullRow ==
    Element("tr", {".job"}, None, <<"Backend Developer", "Acme">>,
            << Text("h2", {}, "Backend Developer"), Text("h3", {}, " Acme "),
               Link({}, "/remote-jobs/1", "Apply"),
               Text("span", {".tag"}, "go"), Text("span", {".tag"}, "sql"),
               Text("span", {".tag"}, "aws"), Text("span", {".tag"}, "docker"),
               Text("span", {".tag"}, "linux"), Text("span", {".tag"}, "git") >>)
\* A tr.job row with nothing in it.
BareRow == Element("tr", {".job"}, None, <<>>, <<>>)
\* A div.listResults card with a title, a location and a link.
FullResult ==
    Element("div", {".listResults"}, None, <<"Site Reliability Engineer", "Berlin">>,
            << Text("h2", {}, "Site Reliability Engineer"),
               Text("span", {".fc-black-500"}, "Berlin"),
               Link({}, "/jobs/77", "View") >>)
\* A div.listResults card with nothing in it.
BareResult == Element("div", {".listResults"}, None, <<>>, <<>>)

RemoteOkPages ==
    { [elements |-> << Text("p", {}, "No jobs") >>],
      [elements |-> <<FullRow, BareRow>>],
      [elements |-> [k \in 1..(RemoteOkLimit + 1) |-> IF k = 1 THEN FullRow ELSE BareRow]] }
StackOverflowPages ==
    { [elements |-> << Text("p", {}, "Jobs has closed") >>],
      [elements |-> <<FullResult, BareResult>>],
      [elements |-> [k \in 1..(StackOverflowLimit + 1) |->
                        IF k = 1 THEN FullResult ELSE BareResult]] }

\* The pages a job detail request may bring.
DetailPages == {PageNone, PageMain(Len(JobText))}

(***************************************************************************)
(* main() of the three scripts, one step per request, per sleep and per    *)
(* stretch of code between them.                                           *)
(***************************************************************************)
MaxPages == 3
PageSize == 20
DetailSleep == 1
PageSleep == 2
MaxSeed == 1

\* A request and a sleep as the run records them: by is the function they are in.
HttpGet(by, url) == [op |-> "get", by |-> by, url |-> url, secs |-> 0]
Sleep(by, secs) == [op |-> "sleep", by |-> by, url |-> "", secs |-> secs]
Push(window, event) == <<window[2], event>>

\* requests.get(url, ...) and time.sleep(secs) in the function by.
RequestsGet(window, by, url) == Push(window, HttpGet(by, url))
NoTimeSleep(window, by, secs) == window
TimeSleep(window, by, secs) == Push(window, Sleep(by, secs))

\* The URL of the connectivity test.
test_url(sc) ==
    CASE sc = "github" -> "https://github.com"
      [] sc = "microsoft" -> "https://www.microsoft.com"
      [] sc = "tech" -> "https://google.com"

\* urls_to_try of the Microsoft script; the GitHub script has BASE_URL alone.
urls_to_try(sc, pg_no) ==
    IF sc = "github" THEN <<GITHUB_BASE_URL>>
    ELSE LET from == ToString((pg_no - 1) * PageSize)
         IN  << "https://careers.microsoft.com/us/en/search-results?from=" \o from,
                "https://careers.microsoft.com/v2/global/en/search-results?from=" \o from,
                "https://jobs.careers.microsoft.com/global/en/search?from=" \o from >>

\* The except clause of main that takes the exception: "" when none does.
NoHandler(e) == ""
main_handler(e) ==
    IF e = "RequestException" THEN "except requests.RequestException"
    ELSE IF e \in {"Exception", "KeyError", "OSError"} THEN "except Exception"
    ELSE ""

\* job_details before get_job_detail is called.
DefaultDetails == [experience |-> "", skills |-> "", summary |-> "", salary |-> ""]

CardOf(sc, el, base) == IF sc = "github" THEN GithubCard(el) ELSE MicrosoftCard(el, base)

InitMain ==
    /\ scraper \in Scrapers
    /\ pc = "main"
    /\ ExtractIdle
    /\ DetailIdle
    /\ SaveIdle
    /\ VerifyIdle
    /\ MainIdle

\* requests.get(<test URL>) and raise_for_status() at the head of main.
ConnectivityTest ==
    /\ pc = "main"
    /\ \E ok \in BOOLEAN :
        /\ test_ok' = ok
        /\ raised_exc' = IF ok THEN "" ELSE "RequestException"
        /\ pc' = IF ~ok THEN "except" ELSE IF scraper = "tech" THEN "remoteok" ELSE "listing"
        /\ page_no' = IF ok /\ scraper = "microsoft" THEN 1 ELSE page_no
    /\ io' = RequestsGet(io, "main", test_url(scraper))
    /\ UNCHANGED <<scraper, job_description, ret, fetch_ok, page, job_details,
                   jobs, write_ok, file, save_ret, verifyVars, escaped, url_index,
                   listing_ok, soup, working_url, job_cards, consulted, card_index,
                   card_data, detail_calls, page_jobs, all_jobs, scraped>>

\* get_job_listings up to its card loop: one listing request and, when it
\* brings a page, the selector loop.
FetchListing ==
    /\ pc = "listing"
    /\ \E ok \in BOOLEAN :
       \E pg \in (IF ok THEN ListingPages(scraper) ELSE {NoSoup}) :
        LET urls == urls_to_try(scraper, page_no)
            selected == JobCards(scraper, pg)
        IN  /\ io' = RequestsGet(io, "get_job_listings", urls[url_index])
            /\ listing_ok' = ok
            /\ page_jobs' = <<>>
            /\ IF ok
               THEN /\ soup' = pg
                    /\ working_url' = urls[url_index]
                    /\ job_cards' = selected.cards
                    /\ consulted' = selected.consulted
                    /\ card_index' = 1
                    /\ url_index' = 1
                    /\ pc' = IF Len(selected.cards) = 0 THEN "returned" ELSE "card"
               ELSE /\ soup' = NoSoup
                    /\ working_url' = ""
                    /\ job_cards' = <<>>
                    /\ consulted' = 0
                    /\ card_index' = 0
                    /\ url_index' = IF url_index < Len(urls) THEN url_index + 1 ELSE 1
                    /\ pc' = IF url_index < Len(urls) THEN "listing" ELSE "returned"
    /\ UNCHANGED <<scraper, job_description, ret, fetch_ok, page, job_details,
                   jobs, write_ok, file, save_ret, verifyVars, test_ok, raised_exc,
                   escaped, page_no, card_data, detail_calls, all_jobs, scraped>>

\* Where the card loop goes after the card in hand.
AfterCard == IF card_index < Len(job_cards) THEN "card" ELSE "returned"

\* The card loop from the head of a round to the detail request, or to the
\* end of the round when there is no such request.
ProcessCard ==
    /\ pc = "card"
    /\ LET c == CardOf(scraper, job_cards[card_index], working_url)
       IN  IF SkipsCard(scraper, c)
           THEN /\ card_data' = NoCard
                /\ page_jobs' = page_jobs
                /\ card_index' = card_index + 1
                /\ pc' = AfterCard
           ELSE IF FetchesDetail(scraper, c)
           THEN /\ card_data' = c
                /\ page_jobs' = page_jobs
                /\ card_index' = card_index
                /\ pc' = "detail"
           ELSE /\ card_data' = NoCard
                /\ page_jobs' = Append(page_jobs, JobData(c, DefaultDetails))
                /\ card_index' = card_index + 1
                /\ pc' = AfterCard
    /\ detail_calls' = 0
    /\ UNCHANGED <<scraper, job_description, ret, fetch_ok, page, job_details,
                   jobs, write_ok, file, save_ret, verifyVars, test_ok, raised_exc,
                   escaped, io, page_no, url_index, listing_ok, soup, working_url,
                   job_cards, consulted, all_jobs, scraped>>

\* job_details = get_job_detail(job_url): the request and what is made of it.
FetchDetail ==
    /\ pc = "detail"
    /\ \E ok \in BOOLEAN :
       \E pg \in (IF ok THEN DetailPages ELSE {NoPage}) :
        /\ fetch_ok' = ok
        /\ page' = pg
        /\ job_details' = get_job_detail(scraper, ok, pg)
    /\ io' = RequestsGet(io, "get_job_detail", card_data.job_url)
    /\ detail_calls' = detail_calls + 1
    /\ pc' = "sleep"
    /\ UNCHANGED <<scraper, job_description, ret, jobs, write_ok, file, save_ret,
                   verifyVars, test_ok, raised_exc, escaped, page_no, url_index,
                   listing_ok, soup, working_url, job_cards, consulted, card_index,
                   card_data, page_jobs, all_jobs, scraped>>

\* time.sleep(1) after get_job_detail and the rest of the round: the record
\* is built and appended.
SleepAfterDetail ==
    /\ pc = "sleep"
    /\ io' = TimeSleep(io, "get_job_listings", DetailSleep)
    /\ page_jobs' = Append(page_jobs, JobData(card_data, job_details))
    /\ card_index' = card_index + 1
    /\ pc' = AfterCard
    /\ card_data' = NoCard
    /\ page' = NoPage
    /\ job_details' = NoDetails
    /\ UNCHANGED <<scraper, job_description, ret, fetch_ok, jobs, write_ok, file,
                   save_ret, verifyVars, test_ok, raised_exc, escaped, page_no,
                   url_index, listing_ok, soup, working_url, job_cards, consulted,
                   detail_calls, all_jobs, scraped>>

\* The loop that goes on to the next page after an empty one too.
NextPageAnyway(pg_no, listing) ==
    IF pg_no < MaxPages THEN "page_sleep" ELSE "save"
\* if not jobs: break ... if page < max_pages: time.sleep(2), and the end of
\* the loop after the last page.
NextPage(pg_no, listing) ==
    IF Len(listing) = 0 THEN "save"
    ELSE IF pg_no < MaxPages THEN "page_sleep" ELSE "save"

\* get_job_listings has returned: main of the GitHub script takes the list;
\* scrape_all_jobs stops at an empty list, else extends all_jobs and goes on
\* to the sleep before the next page unless this was the last page.
ListingsReturned ==
    /\ pc = "returned"
    /\ scraped' = Append(scraped, [page |-> page_no, jobs |-> page_jobs])
    /\ IF scraper = "github"
       THEN /\ all_jobs' = page_jobs
            /\ pc' = "save"
       ELSE /\ all_jobs' = all_jobs \o page_jobs
            /\ pc' = NextPage(page_no, page_jobs)
    /\ fetch_ok' = FALSE
    /\ detail_calls' = 0
    /\ UNCHANGED <<scraper, job_description, ret, page, job_details,
                   jobs, write_ok, file, save_ret, verifyVars, test_ok, raised_exc,
                   escaped, io, page_no, url_index, listing_ok, soup, working_url,
                   job_cards, consulted, card_index, card_data, page_jobs>>

\* time.sleep(2) of scrape_all_jobs and the step of its loop to the next page.
SleepBetweenPages ==
    /\ pc = "page_sleep"
    /\ io' = TimeSleep(io, "scrape_all_jobs", PageSleep)
    /\ page_no' = page_no + 1
    /\ pc' = "listing"
    /\ UNCHANGED <<scraper, job_description, ret, fetch_ok, page, job_details,
                   jobs, write_ok, file, save_ret, verifyVars, test_ok, raised_exc,
                   escaped, url_index, listing_ok, soup, working_url, job_cards,
                   consulted, card_index, card_data, detail_calls, page_jobs,
                   all_jobs, scraped>>

\* remoteok_jobs = try_scrape_remoteok(); if remoteok_jobs: all_jobs.extend(...)
ScrapeRemoteOk ==
    /\ pc = "remoteok"
    /\ \E ok \in BOOLEAN :
       \E pg \in (IF ok THEN RemoteOkPages ELSE {NoSoup}) :
        LET remoteok_jobs == try_scrape_remoteok(ok, pg)
        IN  /\ listing_ok' = ok
            /\ soup' = pg
            /\ scraped' = Append(scraped, [page |-> 0, jobs |-> remoteok_jobs])
            /\ all_jobs' = all_jobs \o remoteok_jobs
    /\ io' = RequestsGet(io, "try_scrape_remoteok", REMOTEOK_URL)
    /\ pc' = "stackoverflow"
    /\ UNCHANGED <<scraper, job_description, ret, fetch_ok, page, job_details,
                   jobs, write_ok, file, save_ret, verifyVars, test_ok, raised_exc,
                   escaped, page_no, url_index, working_url, job_cards, consulted,
                   card_index, card_data, detail_calls, page_jobs>>

\* so_jobs = try_scrape_stackoverflow_jobs(); if so_jobs: all_jobs.extend(...)
ScrapeStackOverflow ==
    /\ pc = "stackoverflow"
    /\ \E ok \in BOOLEAN :
       \E pg \in (IF ok THEN StackOverflowPages ELSE {NoSoup}) :
        LET so_jobs == try_scrape_stackoverflow_jobs(ok, pg)
        IN  /\ listing_ok' = ok
            /\ soup' = pg
            /\ scraped' = Append(scraped, [page |-> 0, jobs |-> so_jobs])
            /\ all_jobs' = all_jobs \o so_jobs
    /\ io' = RequestsGet(io, "try_scrape_stackoverflow_jobs", STACKOVERFLOW_URL)
    /\ pc' = "save"
    /\ UNCHANGED <<scraper, job_description, ret, fetch_ok, page, job_details,
                   jobs, write_ok, file, save_ret, verifyVars, test_ok, raised_exc,
                   escaped, page_no, url_index, working_url, job_cards, consulted,
                   card_index, card_data, detail_calls, page_jobs>>

\* save_to_excel(records, <the script's file>) as main calls it.
CallSave(records) ==
    \E ok \in BOOLEAN :
        LET out == save_to_excel(scraper, List(records), ok, file)
        IN  /\ jobs' = List(records)
            /\ write_ok' = ok
            /\ file' = out.file
            /\ save_ret' = out.ret

\* if not all_jobs: all_jobs.extend(generate_sample_jobs()) of the tech script.
SamplesAnyway(found, seed) == found \o generate_sample_jobs(seed)
SamplesIfEmpty(found, seed) ==
    IF Len(found) = 0 THEN found \o generate_sample_jobs(seed) ELSE found

\* The end of the try block of main: the tech script fills an empty all_jobs
\* with generate_sample_jobs(); each script saves a list that is not empty.
SaveResults ==
    /\ pc = "save"
    /\ \E seed \in (IF scraper = "tech" /\ Len(all_jobs) = 0 THEN 0..MaxSeed ELSE {0}) :
        LET final == IF scraper = "tech"
                     THEN SamplesIfEmpty(all_jobs, seed) ELSE all_jobs
        IN  /\ all_jobs' = final
            /\ IF Len(final) = 0
               THEN UNCHANGED <<jobs, write_ok, file, save_ret>>
               ELSE CallSave(final)
    /\ pc' = "done"
    /\ UNCHANGED <<scraper, job_description, ret, fetch_ok, page, job_details,
                   verifyVars, test_ok, raised_exc, escaped, io, page_no, url_index,
                   listing_ok, soup, working_url, job_cards, consulted, card_index,
                   card_data, detail_calls, page_jobs, scraped>>

\* The except clauses of main: they print; those of the tech script also
\* generate the sample jobs and save them. An exception no clause takes
\* leaves main.
HandleException ==
    /\ pc = "except"
    /\ IF main_handler(raised_exc) = ""
       THEN /\ escaped' = raised_exc
            /\ UNCHANGED <<jobs, write_ok, file, save_ret>>
       ELSE /\ escaped' = ""
            /\ IF scraper = "tech"
               THEN \E seed \in 0..MaxSeed : CallSave(generate_sample_jobs(seed))
               ELSE UNCHANGED <<jobs, write_ok, file, save_ret>>
    /\ pc' = "done"
    /\ UNCHANGED <<scraper, job_description, ret, fetch_ok, page, job_details,
                   verifyVars, test_ok, raised_exc, io, page_no, url_index,
                   listing_ok, soup, working_url, job_cards, consulted, card_index,
                   card_data, detail_calls, page_jobs, all_jobs, scraped>>

NextMain ==
    \/ ConnectivityTest
    \/ FetchListing
    \/ ProcessCard
    \/ FetchDetail
    \/ SleepAfterDetail
    \/ ListingsReturned
    \/ SleepBetweenPages
    \/ ScrapeRemoteOk
    \/ ScrapeStackOverflow
    \/ SaveResults
    \/ HandleException

SpecMain == InitMain /\ [][NextMain]_vars

(***************************************************************************)
(* What the claims about the extractor speak of.                           *)
(***************************************************************************)
Returned == pc = "return" /\ job_description.type = "str"
LoweredText == Lower(job_description.val)

\* Whether pattern matches somewhere in s.
Hits(pattern, s) == \E pos \in 1..Len(s) : MatchAt(pattern, s, pos) # 0
\* Where its leftmost match starts.
LeftmostStart(pattern, s) ==
    CHOOSE pos \in 1..Len(s) :
        /\ MatchAt(pattern, s, pos) # 0
        /\ \A q \in 1..(pos - 1) : MatchAt(pattern, s, q) = 0
LeftmostMatch(pattern, s) ==
    LET pos == LeftmostStart(pattern, s)
    IN  SubSeq(s, pos, MatchAt(pattern, s, pos) - 1)

\* Where k first occurs in s (for a k that occurs).
FirstIndex(s, k) ==
    CHOOSE i \in 1..(Len(s) - Len(k) + 1) :
        /\ SubSeq(s, i, i + Len(k) - 1) = k
        /\ \A j \in 1..(i - 1) : SubSeq(s, j, j + Len(k) - 1) # k

RECURSIVE Split(_, _)
\* The parts of s between the occurrences of sep.
Split(s, sep) ==
    IF ~Contains(s, sep) THEN <<s>>
    ELSE LET i == FirstIndex(s, sep)
         IN  <<SubSeq(s, 1, i - 1)>> \o Split(SubSeq(s, i + Len(sep), Len(s)), sep)

\* The entries of a skills cell: none for the empty cell.
Entries(skills) == IF skills = "" THEN <<>> ELSE Split(skills, ", ")

\* The places, in the vocabulary, of the keywords that occur in s.
Occurring(sc, s) ==
    {i \in 1..Len(skill_keywords(sc)) : Contains(s, skill_keywords(sc)[i])}
\* The j-th smallest member of a set of numbers.
Nth(S, j) == CHOOSE i \in S : Cardinality({x \in S : x <= i}) = j

Phrase == "5+ years of experience"

\* C1 (as stated): whenever the text contains "5+ years of experience" in any
\* letter case, the returned experience contains "5+ years of experience".
C1_AnyTextWithPhrase ==
    (Returned /\ Contains(LoweredText, Phrase)) => Contains(ret.experience, Phrase)

\* No "N years experience" match lies before the first occurrence of the phrase.
C1_PhraseComesFirst ==
    /\ Contains(LoweredText, Phrase)
    /\ ~Hits(PatYearsExperience,
             SubSeq(LoweredText, 1, FirstIndex(LoweredText, Phrase) - 1))

\* C1 (amended): when the text contains "5+ years of experience" in any letter
\* case and no match of the first pattern precedes its first occurrence, the
\* returned experience contains "5+ years of experience", whichever patterns of
\* lower priority also match.
C1_PhraseFirstIsReturned ==
    (Returned /\ C1_PhraseComesFirst) => Contains(ret.experience, Phrase)

\* The phrase comes after a "minimum N years" match and is still what is returned.
C1_Witness ==
    /\ Returned
    /\ C1_PhraseComesFirst
    /\ Hits(PatMinimum, SubSeq(LoweredText, 1, FirstIndex(LoweredText, Phrase) - 1))
    /\ Contains(ret.experience, Phrase)

\* The fixed priority order of the experience patterns.
C2_Order == <<PatYearsExperience, PatMinimum, PatRange, PatSeniority(scraper), PatDegree>>
C2_Hitting == {k \in 1..Len(C2_Order) : Hits(C2_Order[k], LoweredText)}

\* C2: the experience is the leftmost match, in the lower-cased text, of the
\* first pattern in priority order that matches at all, one match and nothing
\* more, and the empty string when no pattern matches.
C2_FirstPatternFirstMatch ==
    Returned =>
        IF C2_Hitting = {} THEN ret.experience = ""
        ELSE ret.experience = LeftmostMatch(C2_Order[Nth(C2_Hitting, 1)], LoweredText)

\* Several patterns match, the winning one more than once.
C2_Witness ==
    /\ Returned
    /\ Cardinality(C2_Hitting) >= 2
    /\ Len(FindAll(C2_Order[Nth(C2_Hitting, 1)], LoweredText)) >= 2
    /\ ret.experience = LeftmostMatch(C2_Order[Nth(C2_Hitting, 1)], LoweredText)

\* The seniority words other than "lead".
C3_OtherSeniority ==
    << <<Lit("entry"), WsStar, Lit("level")>>, <<Lit("junior")>>, <<Lit("senior")>>,
       <<Lit("principal")>> >>

\* C3: in every scraper, a text in which "lead" is the only hit of the patterns
\* of priority 1 to 4 yields the experience "lead", a degree word or not.
C3_LeadIsRecognised ==
    ( /\ Returned
      /\ Contains(LoweredText, "lead")
      /\ ~Hits(PatYearsExperience, LoweredText)
      /\ ~Hits(PatMinimum, LoweredText)
      /\ ~Hits(PatRange, LoweredText)
      /\ ~Hits(C3_OtherSeniority, LoweredText) )
    => ret.experience = "lead"

\* C4: the skills result holds at most 10 entries.
C4_AtMostTenSkills == pc = "return" => Len(Entries(ret.skills)) <= 10

\* More than 10 keywords occur in the text, 10 are returned.
C4_Witness ==
    /\ Returned
    /\ Cardinality(Occurring(scraper, LoweredText)) > 10
    /\ Len(Entries(ret.skills)) = 10

\* C5: the skills are the keywords that occur in the lower-cased text, in the
\* order of the vocabulary, cut to the first 10 of them and joined with ", ";
\* the result is empty when none occurs.
C5_VocabularyOrder ==
    Returned =>
        LET occ == Occurring(scraper, LoweredText)
            entries == Entries(ret.skills)
        IN  /\ Len(entries) = Min(10, Cardinality(occ))
            /\ \A j \in 1..Len(entries) :
                   entries[j] = skill_keywords(scraper)[Nth(occ, j)]
            /\ (occ = {} => ret.skills = "")

\* More than 10 keywords occur, in the text in another order than in the vocabulary.
C5_Witness ==
    /\ Returned
    /\ Cardinality(Occurring(scraper, LoweredText)) > 10
    /\ FirstIndex(LoweredText, "python") > FirstIndex(LoweredText, "agile")
    /\ Entries(ret.skills)[1] = "python"

\* C6: the skills of a text are those of each of its re-casings (upper case,
\* lower case, swapped case), and each entry is spelled as in the vocabulary.
C6_CaseInsensitiveSkills ==
    Returned =>
        /\ \A t \in {Upper(job_description.val), Lower(job_description.val),
                     SwapCase(job_description.val)} :
               extract_experience_and_skills(scraper, Str(t)).skills = ret.skills
        /\ \A j \in 1..Len(Entries(ret.skills)) :
               \E i \in 1..Len(skill_keywords(scraper)) :
                   Entries(ret.skills)[j] = skill_keywords(scraper)[i]

\* "PYTHON" in upper case yields the entry "python".
C6_Witness ==
    /\ Returned
    /\ Contains(job_description.val, "PYTHON")
    /\ ~Contains(job_description.val, "python")
    /\ Entries(ret.skills)[1] = "python"

\* C7: the call raises nothing, and for the empty string and for None it
\* returns the empty experience and the empty skills.
C7_NeverRaises ==
    pc = "return" =>
        /\ ret.raised = ""
        /\ (job_description.type = "NoneType" \/ job_description.val = "")
               => (ret.experience = "" /\ ret.skills = "")

\* The call with None has returned.
C7_Witness ==
    /\ pc = "return"
    /\ job_description.type = "NoneType"
    /\ ret = Return("", "")

(***************************************************************************)
(* What the claims about get_job_detail speak of.                          *)
(***************************************************************************)
\* C8: the summary is the description unchanged when it has at most 200
\* characters, and its first 200 characters followed by "..." when it has
\* more, 203 characters in all.
C8_SummaryOfDescription ==
    (pc = "return" /\ fetch_ok) =>
        LET d == job_details.description
            summary == job_details.summary
        IN  /\ Len(d) <= 200 => summary = d
            /\ Len(d) > 200 =>
                   /\ Len(summary) = 203
                   /\ \A i \in 1..200 : CharAt(summary, i) = CharAt(d, i)
                   /\ SubSeq(summary, 201, 203) = "..."

\* A description of more than 200 characters was cut.
C8_Witness ==
    /\ pc = "return"
    /\ fetch_ok
    /\ Len(job_details.description) = 201
    /\ Len(job_details.summary) = 203

(***************************************************************************)
(* What the claims about save_to_excel speak of.                           *)
(***************************************************************************)
\* The cell the schema asks for: the record's value, "" when it has none.
C9_Cell(record, key) ==
    IF key \in Keys(record) /\ Get(record, key) \notin {None, NaN}
    THEN Get(record, key) ELSE Str("")

\* C9: a file written for a non-empty record list has exactly the seven
\* columns of the schema in their order and one row per record; a required key
\* a record lacks is written as "", a key outside the schema is not written.
C9_SevenColumns ==
    (pc = "return" /\ Len(jobs.val) > 0 /\ write_ok) =>
        /\ file.exists
        /\ file.columns = <<"JobTitle", "Location", "ExperienceRequired",
                            "SkillsRequired", "Salary", "JobURL",
                            "JobDescriptionSummary">>
        /\ Len(file.rows) = Len(jobs.val)
        /\ \A i \in 1..Len(file.rows) :
               /\ Len(file.rows[i]) = 7
               /\ \A j \in 1..7 :
                      file.rows[i][j] = C9_Cell(jobs.val[i], file.columns[j])

\* A record with a key outside the schema and without a salary was written.
C9_Witness ==
    /\ pc = "return"
    /\ write_ok
    /\ \E i \in 1..Len(jobs.val) :
           /\ "Company" \in Keys(jobs.val[i])
           /\ "Salary" \notin Keys(jobs.val[i])
           /\ jobs.val[i] # jobs.val[1]
           /\ file.rows[i][5] = Str("")
    /\ Len(file.columns) = 7

\* C10: a call with an empty record list leaves the file as it was, absent or
\* present.
C10_EmptyListWritesNothing ==
    [][(pc' = "return" /\ Len(jobs'.val) = 0) => file' = file]_vars

\* A call with an empty list has returned and the file of an earlier call is there.
C10_Witness ==
    /\ pc = "return"
    /\ Len(jobs.val) = 0
    /\ file.exists
    /\ Len(file.rows) > 0

\* C13: when the write fails inside save_to_excel, the value returned differs
\* from the value the same call returns when the write succeeds, in each of
\* the three scripts.
C13_FailureIsTold ==
    (pc = "return" /\ ~Falsy(jobs) /\ ~write_ok) =>
        save_ret # save_to_excel(scraper, jobs, TRUE, file).ret

(***************************************************************************)
(* What the claims about the round trip and verify_excel_file speak of.    *)
(***************************************************************************)
\* The script's last save wrote its records and verify_excel_file read the file.
RoundTrip ==
    /\ pc = "verified"
    /\ read_ok
    /\ write_ok
    /\ Len(jobs.val) >= 1

\* Whether the record has a non-empty value under one of the seven columns.
HasData(record) ==
    \E k \in 1..7 : C9_Cell(record, required_columns[k]) # Str("")

\* The number of the last record with data, 0 when no record has any.
LastWithData(records) ==
    IF \A i \in 1..Len(records) : ~HasData(records[i]) THEN 0
    ELSE CHOOSE i \in 1..Len(records) :
             HasData(records[i]) /\ \A k \in (i + 1)..Len(records) : ~HasData(records[k])

\* Row i of the table read is record i: under each column the record's value,
\* and NaN where the record has none or has "".
RowIsRecord(row, record) ==
    /\ Len(row) = 7
    /\ \A j \in 1..7 :
           LET cell == C9_Cell(record, required_columns[j])
           IN  row[j] = IF cell = Str("") THEN NaN ELSE cell

\* The table read has the seven columns in order, none in front of them.
SchemaRead ==
    /\ verify_df.columns = <<"JobTitle", "Location", "ExperienceRequired",
                             "SkillsRequired", "Salary", "JobURL",
                             "JobDescriptionSummary">>
    /\ ~InSeq(verify_df.columns, "Unnamed: 0")

\* C11 as stated: the table read back has one row per record written, in the
\* order written, under the seven columns in order and no index column.
C11_EveryRowReadBack ==
    RoundTrip =>
        /\ SchemaRead
        /\ Len(verify_df.rows) = Len(jobs.val)
        /\ \A i \in 1..Len(verify_df.rows) : RowIsRecord(verify_df.rows[i], jobs.val[i])

\* C11: the table read back has the seven columns in order and no index
\* column, and its rows are the records written, in the order written, up to
\* the last record that has a non-empty value under one of the seven columns:
\* all of them when the last record written has one.
C11_RowsUpToLastWithData ==
    RoundTrip =>
        /\ SchemaRead
        /\ Len(verify_df.rows) = LastWithData(jobs.val)
        /\ \A i \in 1..Len(verify_df.rows) : RowIsRecord(verify_df.rows[i], jobs.val[i])

\* Two different records were written, the last one with data, and read back.
C11_Witness ==
    /\ RoundTrip
    /\ Len(jobs.val) = 2
    /\ jobs.val[1] # jobs.val[2]
    /\ HasData(jobs.val[2])
    /\ Len(verify_df.rows) = 2

\* Every cell of the table is a string.
AllStrings(rows) ==
    \A i \in 1..Len(rows) : \A j \in 1..Len(rows[i]) : rows[i][j].type = "str"

C20_TrueOnlyWithAllColumns ==
    pc = "verified" =>
        /\ verify_ret \in {Bool(TRUE), Bool(FALSE)}
        /\ verify_ret = Bool(TRUE) <=>
               /\ file.exists
               /\ read_ok
               /\ \A k \in 1..7 : InSeq(file.columns, required_columns[k])

(***************************************************************************)
(* What the claims about the runs of main speak of.                        *)
(***************************************************************************)
\* C14 as stated: of two requests that follow one another in a run, a sleep
\* lies between: the last two requests and sleeps are never two requests.
C14_SleepBetweenAnyTwoRequests ==
    ~(io[1].op = "get" /\ io[2].op = "get")

\* C14: a job detail request is followed by a sleep of one second before
\* anything else is requested, and such a sleep follows nothing else; the
\* first request of every page after the first comes after a sleep of two
\* seconds; the request after the connectivity test comes without a sleep,
\* and the tech script never sleeps.
C14_SleepAfterDetailAndBetweenPages ==
    /\ (io[1].op = "get" /\ io[1].by = "get_job_detail" /\ io[2] # NoIo) =>
           io[2] = Sleep("get_job_listings", 1)
    /\ (io[2].op = "sleep" /\ io[2].secs = 1) =>
           io[1].op = "get" /\ io[1].by = "get_job_detail"
    /\ (pc = "sleep") => io[2].op = "get" /\ io[2].by = "get_job_detail"
    /\ (io[2].op = "get" /\ io[2].by = "get_job_listings" /\ page_no > 1
          /\ io[2].url = urls_to_try(scraper, page_no)[1]) =>
           io[1] = Sleep("scrape_all_jobs", 2)
    /\ (io[1].op = "get" /\ io[1].by = "main") => io[2].op = "get"
    /\ scraper = "tech" => io[1].op # "sleep" /\ io[2].op # "sleep"

\* A detail request was followed by its sleep, and the sleep before the
\* second page by that page's request.
C14_Witness ==
    /\ scraper = "microsoft"
    /\ page_no = 2
    /\ io[1] = Sleep("scrape_all_jobs", 2)
    /\ io[2].op = "get"
    /\ \E k \in 1..Len(all_jobs) : Get(all_jobs[k], "ExperienceRequired") # Str("")

\* C15: when the request of get_job_detail has failed, the dict returned has
\* experience, skills, summary and salary all "", get_job_detail was called
\* once for the card, and the step that follows requests nothing: it appends
\* the record with the card's title and URL and moves to the next card.
C15_FailedDetailStillAppends ==
    [][(pc = "sleep" /\ ~fetch_ok) =>
          /\ job_details.experience = "" /\ job_details.skills = ""
          /\ job_details.summary = "" /\ job_details.salary = ""
          /\ detail_calls = 1
          /\ io[2] = HttpGet("get_job_detail", card_data.job_url)
          /\ io'[2].op = "sleep"
          /\ Len(page_jobs') = Len(page_jobs) + 1
          /\ SubSeq(page_jobs', 1, Len(page_jobs)) = page_jobs
          /\ LET record == page_jobs'[Len(page_jobs')]
             IN  /\ Get(record, "JobTitle") = Str(card_data.job_title)
                 /\ Get(record, "JobURL") = Str(card_data.job_url)
                 /\ card_data.job_title # "" /\ card_data.job_url # ""
                 /\ \A key \in {"ExperienceRequired", "SkillsRequired", "Salary",
                                 "JobDescriptionSummary"} : Get(record, key) = Str("")
          /\ card_index' = card_index + 1
          /\ pc' = IF card_index < Len(job_cards) THEN "card" ELSE "returned"]_vars

\* The detail request of the first of two cards failed, the record was
\* appended and the second card is in hand.
C15_Witness ==
    /\ pc = "card"
    /\ card_index = 2
    /\ detail_calls = 1
    /\ ~fetch_ok
    /\ Len(page_jobs) = 1
    /\ Get(page_jobs[1], "JobURL") # Str("")
    /\ Get(page_jobs[1], "ExperienceRequired") = Str("")

\* The record has the seven fields, each a string.
SevenFields(record) ==
    /\ Len(record) = 7
    /\ Keys(record) = {"JobTitle", "Location", "ExperienceRequired", "SkillsRequired",
                       "Salary", "JobURL", "JobDescriptionSummary"}
    /\ \A k \in 1..7 : record[k][2].type = "str"

\* The records a run has produced so far.
Produced ==
    {page_jobs[k] : k \in 1..Len(page_jobs)} \cup {all_jobs[k] : k \in 1..Len(all_jobs)}
    \cup {jobs.val[k] : k \in 1..Len(jobs.val)}

\* No exception has left main, and main is not stuck before its end.
RunsToCompletion ==
    /\ escaped = ""
    /\ pc # "done" => ENABLED NextMain

\* The Stack Overflow page is parsed and its card number k has no h2, no
\* location element and no link.
BareCard(k) ==
    /\ scraper = "tech" /\ pc = "save" /\ listing_ok
    /\ k <= Len(soup.elements) /\ k <= Len(scraped[2].jobs)
    /\ soup.elements[k] = BareResult

\* C16 as stated: no exception leaves main and main is never stuck; every
\* record has the seven fields, and a field the page did not give is "".
C16_UnavailableIsEmptyEverywhere ==
    /\ RunsToCompletion
    /\ \A record \in Produced : SevenFields(record)
    /\ \A k \in 1..10 : BareCard(k) =>
           \A key \in {"JobTitle", "Location", "JobURL"} :
               Get(scraped[2].jobs[k], key) = Str("")

\* C16: no exception leaves main and main is never stuck, whatever the
\* requests, the pages and the write do; every record has the seven fields as
\* strings; in the GitHub and Microsoft scripts a record without a URL has
\* "" for experience, skills, salary and summary, and in the tech script a
\* card without title, location and link gives "Unknown Title", "Remote" and
\* a URL of "", with "" for the other fields.
C16_NoEscapeSevenFields ==
    /\ RunsToCompletion
    /\ \A record \in Produced : SevenFields(record)
    /\ scraper \in {"github", "microsoft"} =>
           \A record \in Produced :
               Get(record, "JobURL") = Str("") =>
                   \A key \in {"ExperienceRequired", "SkillsRequired", "Salary",
                                "JobDescriptionSummary"} : Get(record, key) = Str("")
    /\ \A k \in 1..10 : BareCard(k) =>
           /\ Get(scraped[2].jobs[k], "JobTitle") = Str("Unknown Title")
           /\ Get(scraped[2].jobs[k], "Location") = Str("Remote")
           /\ \A key \in {"ExperienceRequired", "SkillsRequired", "Salary", "JobURL",
                            "JobDescriptionSummary"} :
                  Get(scraped[2].jobs[k], key) = Str("")

\* main of the tech script has ended after a failed connectivity test and a
\* failed write.
C16_Witness ==
    /\ pc = "done"
    /\ scraper = "tech"
    /\ raised_exc = "RequestException"
    /\ escaped = ""
    /\ ~write_ok
    /\ Len(jobs.val) > 0

\* A listing page of the GitHub or Microsoft script has been parsed.
ListingParsed ==
    /\ scraper \in {"github", "microsoft"}
    /\ pc \in {"card", "detail", "sleep", "returned"}
    /\ listing_ok

\* The numbers of the job selectors that match an element of the page.
MatchingSelectors ==
    {k \in 1..Len(job_selectors(scraper)) :
        \E i \in 1..Len(Descend(soup.elements, 1)) :
            Matches(Descend(soup.elements, 1)[i], job_selectors(scraper)[k])}

\* The cards are the elements the first matching selector matches, and the
\* selectors after it were not tried.
FirstMatchingSelectorWins ==
    MatchingSelectors # {} =>
        LET first == CHOOSE k \in MatchingSelectors : \A j \in MatchingSelectors : k <= j
        IN  /\ job_cards = Select(soup.elements, job_selectors(scraper)[first])
            /\ Len(job_cards) >= 1
            /\ consulted = first

\* The links of the page whose href has a job keyword in it.
KeywordLinks ==
    SelectSeq(Descend(soup.elements, 1),
              LAMBDA e : /\ e.name = "a" /\ e.href # None
                         /\ \/ Contains(Lower(e.href.val), "job")
                            \/ Contains(Lower(e.href.val), "career")
                            \/ Contains(Lower(e.href.val), "position")
                            \/ Contains(Lower(e.href.val), "opening"))

\* C17 as stated: the cards are those of the first job selector that matches;
\* when none matches there are no cards and the listing is empty, in the
\* GitHub and in the Microsoft script.
C17_NoMatchNoCards ==
    ListingParsed =>
        /\ FirstMatchingSelectorWins
        /\ MatchingSelectors = {} => job_cards = <<>> /\ page_jobs = <<>>

\* C17: the cards are those of the first job selector that matches, the later
\* selectors are not tried; when none matches, the Microsoft script has no
\* cards and an empty listing, and the GitHub script takes the links whose
\* href has job, career, position or opening in it as its cards, with an
\* empty listing when there is no such link.
C17_FirstMatchElseLinks ==
    ListingParsed =>
        /\ FirstMatchingSelectorWins
        /\ MatchingSelectors = {} =>
               /\ consulted = Len(job_selectors(scraper))
               /\ scraper = "microsoft" => job_cards = <<>> /\ page_jobs = <<>>
               /\ scraper = "github" =>
                      /\ job_cards = KeywordLinks
                      /\ KeywordLinks = <<>> => page_jobs = <<>>

\* A page on which a job selector after the first is the first to match, and
\* a later one matches too.
C17_Witness ==
    /\ ListingParsed
    /\ \E k \in MatchingSelectors : k = consulted /\ k > 1
    /\ \E k \in MatchingSelectors : k > consulted
    /\ Len(job_cards) = 2

\* main of the tech script has ended and its scraping had failed: the
\* connectivity test raised, or both listing scrapers returned no records.
TechScrapingFailed ==
    /\ scraper = "tech"
    /\ pc = "done"
    /\ \/ ~test_ok
       \/ /\ Len(scraped) = 2
          /\ scraped[1].jobs = <<>>
          /\ scraped[2].jobs = <<>>

\* C18: when the scraping of the tech script has failed, the list handed to
\* save_to_excel has exactly 25 records, each with the seven fields, Salary
\* "" and every other field a non-empty string.
C18_SamplesOnFailure ==
    TechScrapingFailed =>
        /\ Len(jobs.val) = 25
        /\ \A k \in 1..Len(jobs.val) :
               /\ SevenFields(jobs.val[k])
               /\ Get(jobs.val[k], "Salary") = Str("")
               /\ \A key \in {"JobTitle", "Location", "ExperienceRequired",
                                "SkillsRequired", "JobURL", "JobDescriptionSummary"} :
                      Get(jobs.val[k], key) # Str("")

\* The test passed, both scrapers came back empty, and the samples were saved.
C18_Witness ==
    /\ TechScrapingFailed
    /\ test_ok
    /\ write_ok
    /\ Len(file.rows) = 25
    /\ Get(jobs.val[25], "JobURL") = Str("https://careers.netflix.com/job/1024")

RECURSIVE Concat(_, _)
\* The lists the calls from number k on returned, one after the other.
Concat(calls, k) ==
    IF k > Len(calls) THEN <<>> ELSE calls[k].jobs \o Concat(calls, k + 1)

\* C19: scrape_all_jobs calls get_job_listings for the pages 1, 2, ... in
\* order, for three pages at most and for none after a page that gave no
\* records; each listing request carries the offset of its page; all_jobs is
\* the lists of the pages one after the other, in page order.
C19_PagesInOrderUntilEmpty ==
    scraper = "microsoft" =>
        /\ Len(scraped) <= 3
        /\ \A k \in 1..Len(scraped) :
               /\ scraped[k].page = k
               /\ k < Len(scraped) => scraped[k].jobs # <<>>
        /\ all_jobs = Concat(scraped, 1)
        /\ pc \in {"listing", "card", "detail", "sleep", "returned"} =>
               /\ page_no = Len(scraped) + 1
               /\ page_no <= 3
        /\ (pc = "page_sleep") => page_no = Len(scraped) /\ page_no < 3
        /\ (pc \in {"card", "detail", "sleep", "returned"} /\ listing_ok) =>
               \E k \in 1..3 :
                   /\ working_url = urls_to_try(scraper, page_no)[k]
                   /\ \E i \in 1..Len(working_url) :
                          SubSeq(working_url, i, Len(working_url))
                              = "?from=" \o ToString((page_no - 1) * 20)
        /\ (pc \in {"save", "done"} /\ test_ok) =>
               \/ Len(scraped) = 3
               \/ scraped[Len(scraped)].jobs = <<>>

\* Two pages gave records and the third gave cards without a title: the
\* run ended with the records of the first two.
C19_Witness ==
    /\ scraper = "microsoft"
    /\ pc = "done"
    /\ Len(scraped) = 3
    /\ scraped[3].jobs = <<>>
    /\ soup = MicrosoftUntitled
    /\ Len(all_jobs) = 3
    /\ scraped[1].jobs # scraped[2].jobs

\* The list handed to save_to_excel by main of the tech script, once it was.
TechSaved == scraper = "tech" /\ jobs.val # <<>>

\* The records the two listing scrapers returned to main, in call order.
ScrapedRecords == IF Len(scraped) = 0 THEN <<>> ELSE Concat(scraped, 1)

\* What generate_sample_jobs can return.
GeneratedLists == {generate_sample_jobs(seed) : seed \in 0..MaxSeed}
GeneratedRecords == UNION {{samples[k] : k \in 1..Len(samples)} : samples \in GeneratedLists}

\* An except clause of main took an exception.
HandlerReached == raised_exc # "" /\ main_handler(raised_exc) # ""

\* C21: the list main of the tech script hands to save_to_excel is either the
\* Remote OK records (at most 15) followed by the Stack Overflow records (at
\* most 10) with no generated record among them, or one list of the 25
\* generated records with no scraped record among them; the generated list
\* is saved only when the scrapers returned no record or an except clause of
\* main took an exception.
C21_ScrapedOrGeneratedNeverBoth ==
    TechSaved =>
        \/ /\ Len(scraped) = 2
           /\ jobs.val = scraped[1].jobs \o scraped[2].jobs
           /\ Len(scraped[1].jobs) <= 15
           /\ Len(scraped[2].jobs) <= 10
           /\ \A k \in 1..Len(jobs.val) : jobs.val[k] \notin GeneratedRecords
        \/ /\ jobs.val \in GeneratedLists
           /\ Len(jobs.val) = 25
           /\ \A k \in 1..Len(ScrapedRecords) : ScrapedRecords[k] \notin GeneratedRecords
           /\ ScrapedRecords = <<>> \/ HandlerReached

\* Both scrapers came back full: 15 Remote OK records and 10 Stack Overflow
\* records were saved, and no generated record with them.
C21_Witness ==
    /\ TechSaved
    /\ pc = "done"
    /\ Len(scraped) = 2
    /\ Len(scraped[1].jobs) = 15
    /\ Len(scraped[2].jobs) = 10
    /\ Len(jobs.val) = 25
    /\ Get(jobs.val[16], "JobTitle") = Str("Site Reliability Engineer")

\* The keyword at place i of the vocabulary is an entry of the returned skills.
Reported(i) ==
    \E j \in 1..Len(Entries(ret.skills)) :
        Entries(ret.skills)[j] = skill_keywords(scraper)[i]

\* C22: a keyword of the vocabulary is found exactly when it occurs as a
\* contiguous substring of the lower-cased text, whatever stands next to the
\* occurrence: it is an entry of the returned skills exactly when it occurs
\* and fewer than 10 occurring keywords stand before it in the vocabulary.
\* The text "Javascript. " yields "java, javascript".
C22_SubstringNoWordBoundary ==
    Returned =>
        LET occ == Occurring(scraper, LoweredText)
        IN  /\ \A i \in 1..Len(skill_keywords(scraper)) :
                   Reported(i) <=>
                       (i \in occ /\ Cardinality({x \in occ : x <= i}) <= 10)
            /\ (job_description.val = "Javascript. " => ret.skills = "java, javascript")

\* The only technology word of the text is "javascript": "java" never
\* stands as a word of its own, and both keywords are returned.
C22_Witness ==
    /\ Returned
    /\ job_description.val = "Javascript. "
    /\ ~WholeWord(LoweredText, "java")
    /\ WholeWord(LoweredText, "javascript")
    /\ ret.skills = "java, javascript"

====
